---------------------------- MODULE Spec2Model ----------------------------
(***************************************************************************)
(* Model of exec_sc.py: batch short-circuit analysis driven through the    *)
(* psspy API, followed by a line scan of the text reports into a csv.      *)
(*                                                                         *)
(* Strings are sequences of tokens; "." is always a token of its own, so   *)
(* that os.path.splitext and str.rsplit(".", 1) are computed, not assumed. *)
(* A file is a sequence of lines; a report line is one of a few            *)
(* representative texts (see the Line section).                            *)
(***************************************************************************)
EXTENDS Integers, Sequences, FiniteSets, TLC

VARIABLES
    pc,          \* position of the script
    arrCases,    \* list of savecases to process (src line 45)
    csv,         \* content of sc_results.csv, as a token sequence
    fs,          \* working directory: file name -> sequence of lines
    calls,       \* psspy API calls received by the simulator, in order
    repDev,      \* simulator state: file currently selected for report output
    simFail,     \* some psspy call has failed
    err,         \* uncaught exception that ended the script ("none" if none)
    index,       \* header loop variable (src line 104)
    caseIdx,     \* position of the for loop over arrCases (src line 115)
    basecase, nameCase,
    fReportList, fileIdx, sFile, sCaseName, bufLines, ctrLines, iLen,
    strBus, strName, strMVA, strAmps, strImp, strXR

vars == << pc, arrCases, csv, fs, calls, repDev, simFail, err, index, caseIdx,
           basecase, nameCase, fReportList, fileIdx, sFile, sCaseName,
           bufLines, ctrLines, iLen, strBus, strName, strMVA, strAmps,
           strImp, strXR >>

----------------------------------------------------------------------------
(* Bounds *)

MaxCases == 2

MaxLines == 6

----------------------------------------------------------------------------
(* Global definitions of the script *)

\* Mutant: the line  psspy.throwPsseExceptions = True  left out.
throwPsseExceptionsOff == FALSE

throwPsseExceptions == TRUE

arrBuses == << "2024", "2028", "2034", "2035", "2042" >>

arrCsvHeaders == << <<"case">>, <<"bus">>, <<"name">>, <<"MVA">>, <<"amps">>,
                    <<"impedance">>, <<"X/R">> >>

strReports == << "sc_report_-_" >>

strProg == << "sc_prog_-_" >>

csvDelim == << "," >>

csvEOL == << "\n" >>

ext_csv == << ".", "csv" >>

ext_txt == << ".", "txt" >>

----------------------------------------------------------------------------
(* String helpers *)

Range(s) == { s[i] : i \in 1..Len(s) }

\* Position of the last "." of s, 0 if there is none (str.rfind).
LastDot(s) ==
    IF \E i \in 1..Len(s) : s[i] = "."
    THEN CHOOSE i \in 1..Len(s) : s[i] = "." /\ \A j \in (i+1)..Len(s) : s[j] # "."
    ELSE 0

\* os.path.splitext(p)[0] for a bare file name: cut at the last dot, unless
\* only dots precede it.
splitext0(p) ==
    LET d == LastDot(p)
    IN  IF d > 0 /\ \E k \in 1..(d-1) : p[k] # "." THEN SubSeq(p, 1, d-1) ELSE p

\* s.rsplit(".", 1)[0]
rsplit0(s) ==
    LET d == LastDot(s)
    IN  IF d > 0 THEN SubSeq(s, 1, d-1) ELSE s

ReportName(nc) == strReports \o nc \o ext_txt

ProgName(nc) == strProg \o nc \o ext_txt

IsPrefix(s, t) == Len(s) <= Len(t) /\ SubSeq(t, 1, Len(s)) = s

IsSuffix(s, t) == Len(s) <= Len(t) /\ SubSeq(t, Len(t) - Len(s) + 1, Len(t)) = s

\* fnmatch of  strReports + "*" + ".txt"
GlobMatch(n) ==
    /\ Len(n) >= Len(strReports) + Len(ext_txt)
    /\ IsPrefix(strReports, n)
    /\ IsSuffix(ext_txt, n)

\* All orders in which a directory listing can return the set S.
Orders(S) ==
    { s \in [1..Cardinality(S) -> S] : \A i, j \in 1..Cardinality(S) : s[i] = s[j] => i = j }


----------------------------------------------------------------------------
(* Report lines and the regular expressions (src lines 79-90)              *)
(*                                                                         *)
(* A line is one of these representative texts:                            *)
(*   "H"  X------------ BUS ------------X     MVA     AMP     DEG ...      *)
(*   "D1"   2024  [BUS2024  100.00] 3PH  2573.54  14858.3  -88.07 ...      *)
(*   "D2"   2028  [BUS2028  100.00] 3PH  1310.20   7564.5  -86.12 ...      *)
(*   "Z"  THEVENIN IMPEDANCE, X/R  (OHM)    Z+:/4.274/88.066, 29.60898     *)
(*   "O"  a blank line                                                     *)
(* Each findall operator gives the list of matches re.findall returns on   *)
(* that text, cut after the matches the script can read (it reads [0]).    *)

Lines == { "H", "D1", "D2", "Z", "O" }

\* re.match(reHeaderLine, l): the pattern must match at the start of l.
reHeaderLine(l) == l = "H"

\* re.findall("\d{1,}", l): every run of digits, also the 3 of 3PH and the
\* digits of an impedance line.
reBus(l) ==
    CASE l = "D1" -> << <<"2024">>, <<"100">> >>
      [] l = "D2" -> << <<"2028">>, <<"100">> >>
      [] l = "Z"  -> << <<"4">>, <<"274">> >>
      [] OTHER    -> << >>

\* re.findall("\[(.+?)\]", l)
reName(l) ==
    CASE l = "D1" -> << <<"BUS2024  100.00">> >>
      [] l = "D2" -> << <<"BUS2028  100.00">> >>
      [] OTHER    -> << >>

\* re.findall("3PH[\s]*([\d]*\.[\d]*)", l)
reMVA(l) ==
    CASE l = "D1" -> << <<"2573.54">> >>
      [] l = "D2" -> << <<"1310.20">> >>
      [] OTHER    -> << >>

\* re.findall("3PH[\s]*[\d]*\.[\d]*[\s]*([\d]*\.[\d]*)", l)
reAmps(l) ==
    CASE l = "D1" -> << <<"14858.3">> >>
      [] l = "D2" -> << <<"7564.5">> >>
      [] OTHER    -> << >>

\* re.findall("THEVENIN IMPEDANCE.*Z\+\:(.*)\,", l)
reImp(l) == IF l = "Z" THEN << <<"/4.274/88.066">> >> ELSE << >>

\* re.findall("THEVENIN IMPEDANCE.*\, ([\d]*\.[\d]*)", l)
reXR(l) == IF l = "Z" THEN << <<"29.60898">> >> ELSE << >>

\* Python list read  buf[i]  (0-based); the caller checks InRange first.
InRange(buf, i) == 0 <= i /\ i < Len(buf)

At(buf, i) == buf[i + 1]

----------------------------------------------------------------------------
(* Inputs *)

\* Savecase file names the list arrCases is populated from.
CaseFiles ==
    { << "ir652_max", ".", "sav" >>,
      << "ir652_min", ".", "sav" >>,
      << "ir652", ".", "v2", ".", "sav" >> }

RECURSIVE SeqsUpTo(_, _)
SeqsUpTo(S, n) ==
    IF n = 0 THEN { << >> }
    ELSE LET shorter == SeqsUpTo(S, n - 1)
         IN  shorter \cup { Append(s, x) : s \in shorter, x \in S }

\* Reports the fault calculation can write (the engine is opaque): a
\* one-bus report, a two-bus report with blank lines, a report cut off after
\* a data line.
SimReports ==
    { << "H", "D1", "Z" >>,
      << "O", "H", "D1", "Z", "H", "D2", "Z", "O" >>,
      << "H", "D2" >> }

\* A report left in the working directory by an earlier run.
StaleName == strReports \o << "old_case" >> \o ext_txt

StaleReport == << "H", "D2", "Z" >>

EmptyDir == [ n \in {} |-> << >> ]

HeaderRow ==
    << "case", ",", "bus", ",", "name", ",", "MVA", ",", "amps", ",",
       "impedance", ",", "X/R", "\n" >>

----------------------------------------------------------------------------
(* State after the global definitions (src lines 42-92) *)

Unset ==
    /\ index = 0 /\ caseIdx = 0
    /\ basecase = << >> /\ nameCase = << >>
    /\ fReportList = << >> /\ fileIdx = 0
    /\ sFile = << >> /\ sCaseName = << >>
    /\ bufLines = << >> /\ ctrLines = 0 /\ iLen = 0
    /\ strBus = << >> /\ strName = << >> /\ strMVA = << >>
    /\ strAmps = << >> /\ strImp = << >> /\ strXR = << >>

Init ==
    /\ pc = "open_csv"
    /\ arrCases \in SeqsUpTo(CaseFiles, MaxCases) \ { << >> }
    /\ csv \in { << >>, << "old", "\n" >> }
    /\ fs \in { EmptyDir, (StaleName :> StaleReport) }
    /\ calls = << >> /\ repDev = << >> /\ simFail = FALSE /\ err = "none"
    /\ Unset

hdrVars == << index >>
simVars == << calls, repDev, simFail >>
runVars == << caseIdx, basecase, nameCase >>
fileVars == << fReportList, fileIdx, sFile, sCaseName, bufLines, iLen >>
strVars == << strBus, strName, strMVA, strAmps, strImp, strXR >>

----------------------------------------------------------------------------
(* Exceptions *)

\* An uncaught exception ends the script: there is no try/except.
Raise(e) == pc' = "crashed" /\ err' = e

Goto(p) == pc' = p /\ err' = err

\* A psspy call that fails: with throwPsseExceptions it raises, without it
\* the call returns an error code, which the script never tests.
Failed(p) ==
    /\ simFail' = TRUE
    /\ IF throwPsseExceptions THEN Raise("PsseException") ELSE Goto(p)

Call(api, arg) == [ api |-> api, arg |-> arg ]

----------------------------------------------------------------------------
(* Output file and header row (src lines 98-109) *)

\* open("sc_results.csv", "w") truncates the file.
OpenCsv ==
    /\ pc = "open_csv"
    /\ csv' = << >>
    /\ index' = 0
    /\ Goto("header")
    /\ UNCHANGED << arrCases, fs, simVars, runVars, fileVars, ctrLines, strVars >>

\* Mutant: the delimiter written after every column, the last included.
WriteHeaderColTrailing ==
    /\ pc = "header"
    /\ index < Len(arrCsvHeaders)
    /\ csv' = csv \o At(arrCsvHeaders, index) \o csvDelim
    /\ index' = index + 1
    /\ Goto("header")
    /\ UNCHANGED << arrCases, fs, simVars, runVars, fileVars, ctrLines, strVars >>

\* One pass of the loop over enumerate(arrCsvHeaders).
WriteHeaderCol ==
    /\ pc = "header"
    /\ index < Len(arrCsvHeaders)
    /\ csv' = IF index < Len(arrCsvHeaders) - 1
              THEN csv \o At(arrCsvHeaders, index) \o csvDelim
              ELSE csv \o At(arrCsvHeaders, index)
    /\ index' = index + 1
    /\ Goto("header")
    /\ UNCHANGED << arrCases, fs, simVars, runVars, fileVars, ctrLines, strVars >>

WriteHeaderEOL ==
    /\ pc = "header"
    /\ index = Len(arrCsvHeaders)
    /\ csv' = csv \o csvEOL
    /\ Goto("psseinit")
    /\ UNCHANGED << arrCases, fs, simVars, hdrVars, runVars, fileVars, ctrLines,
                    strVars >>

----------------------------------------------------------------------------
(* Driving the simulator (src lines 111-180) *)

PsseInit ==
    /\ pc = "psseinit"
    /\ calls' = Append(calls, Call("psseinit", << >>))
    /\ \/ Goto("for_case") /\ simFail' = simFail
       \/ Failed("for_case")
    /\ caseIdx' = 0
    /\ UNCHANGED << arrCases, csv, fs, repDev, hdrVars, basecase, nameCase,
                    fileVars, ctrLines, strVars >>

\* Mutant: the list walked from its end.
ForCaseReversed ==
    /\ pc = "for_case"
    /\ IF caseIdx < Len(arrCases)
       THEN /\ basecase' = At(arrCases, Len(arrCases) - 1 - caseIdx)
            /\ nameCase' = splitext0(At(arrCases, Len(arrCases) - 1 - caseIdx))
            /\ Goto("case")
       ELSE /\ UNCHANGED << basecase, nameCase >>
            /\ Goto("glob")
    /\ UNCHANGED << arrCases, csv, fs, simVars, hdrVars, caseIdx, fileVars,
                    ctrLines, strVars >>

\* Head of  for basecase in arrCases  and the computation of nameCase.
ForCase ==
    /\ pc = "for_case"
    /\ IF caseIdx < Len(arrCases)
       THEN /\ basecase' = At(arrCases, caseIdx)
            /\ nameCase' = splitext0(At(arrCases, caseIdx))
            /\ Goto("case")
       ELSE /\ UNCHANGED << basecase, nameCase >>
            /\ Goto("glob")
    /\ UNCHANGED << arrCases, csv, fs, simVars, hdrVars, caseIdx, fileVars,
                    ctrLines, strVars >>

LoadCase ==
    /\ pc = "case"
    /\ calls' = Append(calls, Call("case", basecase))
    /\ \/ Goto("options") /\ simFail' = simFail
       \/ Failed("options")
    /\ UNCHANGED << arrCases, csv, fs, repDev, hdrVars, runVars, fileVars,
                    ctrLines, strVars >>

OptionCalls ==
    << Call("short_circuit_units", << "1" >>),
       Call("short_circuit_z_units", << "1" >>),
       Call("short_circuit_coordinates", << "1" >>),
       Call("short_circuit_z_coordinates", << "0" >>),
       Call("lines_per_page_one_device", << "1", "60" >>) >>

\* The five option calls; any of them can be the one that fails.
SetOptions ==
    /\ pc = "options"
    /\ \/ /\ calls' = calls \o OptionCalls
          /\ Goto("report_output") /\ simFail' = simFail
       \/ \E k \in 1..Len(OptionCalls) :
            /\ calls' = calls \o SubSeq(OptionCalls, 1, k)
            /\ Failed("report_output")
    /\ UNCHANGED << arrCases, csv, fs, repDev, hdrVars, runVars, fileVars,
                    ctrLines, strVars >>

\* report_output(islct = 2, filarg, options1 = 0): the report device becomes
\* the file filarg, opened for overwriting.
ReportOutput ==
    /\ pc = "report_output"
    /\ calls' = Append(calls, Call("report_output", ReportName(nameCase)))
    /\ \/ /\ fs' = (ReportName(nameCase) :> << >>) @@ fs
          /\ repDev' = ReportName(nameCase)
          /\ Goto("progress_output") /\ simFail' = simFail
       \/ /\ UNCHANGED << fs, repDev >>
          /\ Failed("progress_output")
    /\ UNCHANGED << arrCases, csv, hdrVars, runVars, fileVars, ctrLines, strVars >>

ProgressOutput ==
    /\ pc = "progress_output"
    /\ calls' = Append(calls, Call("progress_output", ProgName(nameCase)))
    /\ \/ /\ fs' = (ProgName(nameCase) :> << >>) @@ fs
          /\ Goto("flat_2") /\ simFail' = simFail
       \/ /\ UNCHANGED fs
          /\ Failed("flat_2")
    /\ UNCHANGED << arrCases, csv, repDev, hdrVars, runVars, fileVars, ctrLines,
                    strVars >>

Flat2 ==
    /\ pc = "flat_2"
    /\ calls' = Append(calls, Call("flat_2", << >>))
    /\ \/ Goto("bsys") /\ simFail' = simFail
       \/ Failed("bsys")
    /\ UNCHANGED << arrCases, csv, fs, repDev, hdrVars, runVars, fileVars,
                    ctrLines, strVars >>

Bsys ==
    /\ pc = "bsys"
    /\ calls' = Append(calls, Call("bsys", arrBuses))
    /\ \/ Goto("iecs_4") /\ simFail' = simFail
       \/ Failed("iecs_4")
    /\ UNCHANGED << arrCases, csv, fs, repDev, hdrVars, runVars, fileVars,
                    ctrLines, strVars >>

\* The fault calculation writes its report to the report device; the loop
\* then moves to the next case.
Iecs4 ==
    /\ pc = "iecs_4"
    /\ calls' = Append(calls, Call("iecs_4", << >>))
    /\ \/ /\ \E rep \in SimReports :
               fs' = IF repDev = << >> THEN fs ELSE (repDev :> rep) @@ fs
          /\ Goto("for_case") /\ simFail' = simFail
       \/ /\ UNCHANGED fs
          /\ Failed("for_case")
    /\ caseIdx' = caseIdx + 1
    /\ UNCHANGED << arrCases, csv, repDev, hdrVars, basecase, nameCase, fileVars,
                    ctrLines, strVars >>

----------------------------------------------------------------------------
(* Parsing the reports (src lines 182-246) *)

\* glob.glob(strReports + "*" + ".txt"): every matching file of the working
\* directory, in the order the directory listing gives them.
Glob ==
    /\ pc = "glob"
    /\ fReportList' \in Orders({ n \in DOMAIN fs : GlobMatch(n) })
    /\ fileIdx' = 0
    /\ Goto("for_file")
    /\ UNCHANGED << arrCases, csv, fs, simVars, hdrVars, runVars, sFile,
                    sCaseName, bufLines, iLen, ctrLines, strVars >>

\* Head of  for sFile in fReportList  down to the start of the line loop.
ForFile ==
    /\ pc = "for_file"
    /\ IF fileIdx < Len(fReportList)
       THEN /\ sFile' = At(fReportList, fileIdx)
            /\ sCaseName' = rsplit0(At(fReportList, fileIdx))
            /\ bufLines' = fs[At(fReportList, fileIdx)]
            /\ ctrLines' = 0
            /\ iLen' = Len(fs[At(fReportList, fileIdx)])
            /\ Goto("while")
       ELSE /\ UNCHANGED << sFile, sCaseName, bufLines, ctrLines, iLen >>
            /\ Goto("close")
    /\ UNCHANGED << arrCases, csv, fs, simVars, hdrVars, runVars, fReportList,
                    fileIdx, strVars >>

\* One test of  while(ctrLines < iLen)  and of the header match.  A header
\* advances to the data line; any other line is skipped.
While ==
    /\ pc = "while"
    /\ IF ctrLines < iLen
       THEN IF reHeaderLine(At(bufLines, ctrLines))
            THEN ctrLines' = ctrLines + 1 /\ Goto("data") /\ fileIdx' = fileIdx
            ELSE ctrLines' = ctrLines + 1 /\ Goto("while") /\ fileIdx' = fileIdx
       ELSE ctrLines' = ctrLines /\ Goto("for_file") /\ fileIdx' = fileIdx + 1
    /\ UNCHANGED << arrCases, csv, fs, simVars, hdrVars, runVars, fReportList,
                    sFile, sCaseName, bufLines, iLen, strVars >>

\* Index of the data line read after a header.
DataIndex == ctrLines

\* Mutant: the impedance read from the data line itself.
ImpIndexOnDataLine == ctrLines

\* Index of the impedance line.
ImpIndex == ctrLines + 1

\* bufLines[ctrLines] is read for bus, name, MVA and amps; a subscript out
\* of range, or [0] of an empty findall, raises IndexError.
ReadData ==
    /\ pc = "data"
    /\ IF /\ InRange(bufLines, DataIndex)
          /\ reBus(At(bufLines, DataIndex)) # << >>
          /\ reName(At(bufLines, DataIndex)) # << >>
          /\ reMVA(At(bufLines, DataIndex)) # << >>
          /\ reAmps(At(bufLines, DataIndex)) # << >>
       THEN /\ strBus' = reBus(At(bufLines, DataIndex))[1]
            /\ strName' = reName(At(bufLines, DataIndex))[1]
            /\ strMVA' = reMVA(At(bufLines, DataIndex))[1]
            /\ strAmps' = reAmps(At(bufLines, DataIndex))[1]
            /\ Goto("imp")
       ELSE /\ UNCHANGED << strBus, strName, strMVA, strAmps >>
            /\ Raise("IndexError")
    /\ UNCHANGED << arrCases, csv, fs, simVars, hdrVars, runVars, fileVars,
                    ctrLines, strImp, strXR >>

ReadImp ==
    /\ pc = "imp"
    /\ IF /\ InRange(bufLines, ImpIndex)
          /\ reImp(At(bufLines, ImpIndex)) # << >>
          /\ reXR(At(bufLines, ImpIndex)) # << >>
       THEN /\ strImp' = reImp(At(bufLines, ImpIndex))[1]
            /\ strXR' = reXR(At(bufLines, ImpIndex))[1]
            /\ Goto("write")
       ELSE /\ UNCHANGED << strImp, strXR >>
            /\ Raise("IndexError")
    /\ UNCHANGED << arrCases, csv, fs, simVars, hdrVars, runVars, fileVars,
                    ctrLines, strBus, strName, strMVA, strAmps >>

\* The text the six fCsv.write calls append for one bus entry.
RowText ==
    sCaseName \o csvDelim \o strBus \o csvDelim \o strName \o csvDelim
      \o strMVA \o csvDelim \o strAmps \o csvDelim \o strXR \o csvEOL

\* The row is written and the loop counter advanced past the data line.
WriteRow ==
    /\ pc = "write"
    /\ csv' = csv \o RowText
    /\ ctrLines' = ctrLines + 1
    /\ Goto("while")
    /\ UNCHANGED << arrCases, fs, simVars, hdrVars, runVars, fileVars, strVars >>

Close ==
    /\ pc = "close"
    /\ Goto("done")
    /\ UNCHANGED << arrCases, csv, fs, simVars, hdrVars, runVars, fileVars,
                    ctrLines, strVars >>

----------------------------------------------------------------------------
(* The whole script *)

Next ==
    \/ OpenCsv \/ WriteHeaderCol \/ WriteHeaderEOL
    \/ PsseInit \/ ForCase \/ LoadCase \/ SetOptions \/ ReportOutput
    \/ ProgressOutput \/ Flat2 \/ Bsys \/ Iecs4
    \/ Glob \/ ForFile \/ While \/ ReadData \/ ReadImp \/ WriteRow \/ Close

Spec == Init /\ [][Next]_vars

----------------------------------------------------------------------------
(* The line scan alone, over every report of up to MaxLines lines: the     *)
(* state at the head of the file loop after a run of one case whose fault  *)
(* calculation wrote that report.                                          *)

CaseCalls(c) ==
    << Call("case", c) >> \o OptionCalls \o
    << Call("report_output", ReportName(splitext0(c))),
       Call("progress_output", ProgName(splitext0(c))),
       Call("flat_2", << >>),
       Call("bsys", arrBuses),
       Call("iecs_4", << >>) >>

RECURSIVE RunCalls(_)
RunCalls(cases) ==
    IF cases = << >> THEN << Call("psseinit", << >>) >>
    ELSE RunCalls(SubSeq(cases, 1, Len(cases) - 1)) \o CaseCalls(cases[Len(cases)])

ScanCase == << "ir652_max", ".", "sav" >>

InitScan ==
    /\ pc = "for_file"
    /\ arrCases = << ScanCase >>
    /\ csv = HeaderRow
    /\ \E rep \in SeqsUpTo(Lines, MaxLines) :
         fs = (ReportName(splitext0(ScanCase)) :> rep)
                @@ (ProgName(splitext0(ScanCase)) :> << >>)
    /\ calls = RunCalls(<< ScanCase >>)
    /\ repDev = ReportName(splitext0(ScanCase))
    /\ simFail = FALSE /\ err = "none"
    /\ index = Len(arrCsvHeaders) /\ caseIdx = 1
    /\ basecase = ScanCase /\ nameCase = splitext0(ScanCase)
    /\ fReportList = << ReportName(splitext0(ScanCase)) >> /\ fileIdx = 0
    /\ sFile = << >> /\ sCaseName = << >>
    /\ bufLines = << >> /\ ctrLines = 0 /\ iLen = 0
    /\ strBus = << >> /\ strName = << >> /\ strMVA = << >>
    /\ strAmps = << >> /\ strImp = << >> /\ strXR = << >>

NextScan == ForFile \/ While \/ ReadData \/ ReadImp \/ WriteRow \/ Close

SpecScan == InitScan /\ [][NextScan]_vars

----------------------------------------------------------------------------
(* Reading the output table back *)

\* str.split(sep): the pieces of s between the occurrences of token sep.
RECURSIVE Split(_, _)
Split(s, sep) ==
    IF \E i \in 1..Len(s) : s[i] = sep
    THEN LET i == CHOOSE k \in 1..Len(s) : s[k] = sep /\ \A j \in 1..(k-1) : s[j] # sep
         IN  << SubSeq(s, 1, i - 1) >> \o Split(SubSeq(s, i + 1, Len(s)), sep)
    ELSE << s >>

\* The lines of a file that are ended by an end-of-line.
CompleteRows(text) ==
    LET pieces == Split(text, "\n") IN SubSeq(pieces, 1, Len(pieces) - 1)

\* The rows after the header row, each as its list of fields.
DataRows(text) ==
    LET rows == CompleteRows(text)
    IN  [ i \in 1..(Len(rows) - 1) |-> Split(rows[i + 1], ",") ]

ScanPCs == { "for_file", "while", "data", "imp", "write", "close", "done" }

RunReports == { ReportName(splitext0(arrCases[i])) : i \in 1..Len(arrCases) }

NameCases == { splitext0(arrCases[i]) : i \in 1..Len(arrCases) }

IsDataLine(l) ==
    /\ ~reHeaderLine(l)
    /\ reBus(l) # << >> /\ reName(l) # << >>
    /\ reMVA(l) # << >> /\ reAmps(l) # << >>

IsImpLine(l) == reImp(l) # << >> /\ reXR(l) # << >>

\* Every bus-header line is followed by a data line and an impedance line.
WellFormed(buf) ==
    \A i \in 0..(Len(buf) - 1) :
        reHeaderLine(At(buf, i)) =>
            /\ InRange(buf, i + 2)
            /\ IsDataLine(At(buf, i + 1))
            /\ IsImpLine(At(buf, i + 2))

\* The values a bus entry whose header is line i carries.
EntryOf(buf, i) ==
    << reBus(At(buf, i + 1))[1], reName(At(buf, i + 1))[1],
       reMVA(At(buf, i + 1))[1], reAmps(At(buf, i + 1))[1],
       reXR(At(buf, i + 2))[1] >>

\* One entry per header line of buf from line i on, in file order.
RECURSIVE EntriesFrom(_, _)
EntriesFrom(buf, i) ==
    IF i >= Len(buf) THEN << >>
    ELSE IF reHeaderLine(At(buf, i))
         THEN << EntryOf(buf, i) >> \o EntriesFrom(buf, i + 1)
         ELSE EntriesFrom(buf, i + 1)

\* The extracted values of each data row: fields 2..5 and the last field.
Extracted(text) ==
    LET rows == DataRows(text)
    IN  [ i \in 1..Len(rows) |->
            SubSeq(rows[i], 2, 5) \o << rows[i][Len(rows[i])] >> ]

\* The report the scan of SpecScan reads.
ScanInput == fs[fReportList[1]]

----------------------------------------------------------------------------
(* Claims *)

\* C1: every data row has one field per header column, in header order:
\* 7 fields, the Thevenin impedance in the 6th and X/R in the 7th.
C1_RowMatchesHeader ==
    StaleName \notin DOMAIN fs =>
    \A i \in 1..Len(DataRows(csv)) :
        LET row == DataRows(csv)[i]
        IN  /\ Len(row) = Len(arrCsvHeaders)
            /\ \E l \in Lines : IsImpLine(l) /\ row[6] = reImp(l)[1]
            /\ \E l \in Lines : IsImpLine(l) /\ row[7] = reXR(l)[1]

\* C2: with no simulator failure the simulator receives, after psseinit,
\* for each case of arrCases once and in list order: case, the report
\* options, report_output, progress_output, flat_2, bsys(arrBuses), iecs_4;
\* and the scan of reports starts only when all of these have been made.
C2_SequentialOrchestration ==
    ~simFail =>
        /\ pc \notin { "open_csv", "header", "psseinit" }
             => IsPrefix(calls, RunCalls(arrCases))
        /\ pc \in ScanPCs => calls = RunCalls(arrCases)
        /\ pc = "crashed" => calls = RunCalls(arrCases)
        /\ pc \notin ScanPCs \cup { "crashed" } => fReportList = << >> /\ sFile = << >>

C2_Witness ==
    /\ pc = "done" /\ ~simFail
    /\ Len(arrCases) = 2 /\ arrCases[1] # arrCases[2]

\* C3: the set of files scanned in the parse phase equals the set of report
\* files written for the cases of arrCases during the run.
C3_ScansOnlyRunReports ==
    pc \in ScanPCs => Range(fReportList) = RunReports

\* C4: a failing simulator call ends the run at once: nothing happens after
\* it, the parse phase is never entered and the output file holds at most
\* the header row.
C4_NoRecovery ==
    /\ [](simFail =>
            /\ pc = "crashed" /\ err = "PsseException"
            /\ IsPrefix(csv, HeaderRow) /\ Len(DataRows(csv)) = 0
            /\ fReportList = << >> /\ sFile = << >> /\ bufLines = << >>
            /\ IsPrefix(calls, RunCalls(arrCases)))
    /\ [][simFail => UNCHANGED vars]_vars

C4_Witness ==
    /\ simFail /\ pc = "crashed"
    /\ Len(arrCases) = 2 /\ caseIdx = 0
    /\ calls[Len(calls)].api = "flat_2"

\* C5: the header row is written once, as the first line, before the
\* simulator is initialised and before any data row; its columns are
\* separated by the delimiter, none follows the last column, and one
\* end-of-line ends it.
C5_HeaderFirstOnce ==
    /\ pc = "header" => IsPrefix(csv, HeaderRow) /\ csv # HeaderRow /\ calls = << >>
    /\ pc = "open_csv" => calls = << >>
    /\ calls # << >> => IsPrefix(HeaderRow, csv)
    /\ pc \notin { "open_csv", "header" } =>
          /\ IsPrefix(HeaderRow, csv)
          /\ Split(CompleteRows(csv)[1], ",") = arrCsvHeaders
          /\ \A i \in 2..Len(CompleteRows(csv)) :
                CompleteRows(csv)[i] # CompleteRows(csv)[1]

C5_Witness ==
    /\ pc = "done"
    /\ Len(CompleteRows(csv)) >= 3

\* C6: for a report in which every header line is followed by a data line
\* and an impedance line, the scan emits one row per header line, in file
\* order, and none for any other line; the data line after a matched header
\* is never the line tested as a header.
C6_OneRowPerHeader ==
    WellFormed(ScanInput) =>
        /\ err = "none"
        /\ IsPrefix(Extracted(csv), EntriesFrom(ScanInput, 0))
        /\ pc \in { "close", "done" } => Extracted(csv) = EntriesFrom(ScanInput, 0)
        /\ pc = "while" => Extracted(csv) \o EntriesFrom(bufLines, ctrLines)
                             = EntriesFrom(ScanInput, 0)
        /\ (pc = "while" /\ 1 <= ctrLines /\ ctrLines < iLen)
             => ~reHeaderLine(At(bufLines, ctrLines - 1))

C6_Witness ==
    /\ pc = "done" /\ WellFormed(ScanInput)
    /\ Len(DataRows(csv)) = 2
    /\ DataRows(csv)[1][2] # DataRows(csv)[2][2]

\* C7: the case column of every data row holds the case name of a savecase
\* of the run (the savecase file name without its extension).
C7_CaseColumnIsCaseName ==
    StaleName \notin DOMAIN fs =>
        \A i \in 1..Len(DataRows(csv)) :
            \E nc \in NameCases : Split(CompleteRows(csv)[i + 1], ",")[1] = nc

\* C8: every index used to read bufLines in the scan loop is smaller than
\* the number of lines of the file.
C8_ReadsInRange ==
    /\ pc = "data" => InRange(bufLines, DataIndex)
    /\ pc = "imp" => InRange(bufLines, ImpIndex)

============================================================================
